---- MODULE Spec2Model ----
(***************************************************************************)
(* pallet-fuso-reward: the era based, pro-rata reward ledger.              *)
(*                                                                         *)
(* Storage is the pair of maps Rewards (AccountId -> Reward) and Volumes   *)
(* (Era -> Volume), both ValueQuery maps, plus the native-token balances   *)
(* of the Asset collaborator that claim_reward credits.  The operations    *)
(* are save_trading (Rewarding trait) and claim_reward (reached through    *)
(* the take_reward extrinsic); both run rotate_reward, and all three are   *)
(* #[transactional].                                                       *)
(***************************************************************************)
EXTENDS Integers, Sequences, FiniteSets, TLC

VARIABLES
    rewards,    \* Rewards: the stored Reward records, by account
    volumes,    \* Volumes: the stored era totals, by era start
    balances,   \* native-token balance of each account in T::Asset
    now,        \* frame_system's block number
    calls,      \* history: number of calls made
    last,       \* history: the last call, its result and what its rotation did
    awarded,    \* history: per era, the sum of the awards added to `confirmed`
    unclaimed,  \* history: per account, the awards since its last paid claim
    recorded,   \* history: per account and era, the volume its trades recorded
    converted   \* history: per account and era, the pending volumes converted

vars == <<rewards, volumes, balances, now, calls, last, awarded, unclaimed,
          recorded, converted>>

----------------------------------------------------------------------------
(* Configuration and bounds                                                *)

AccountId == {"A", "B", "C"}

\* T::EraDuration of the runtime (mock.rs: 100 blocks).
EraDuration == 100

\* T::RewardsPerEra.  The pallet is generic in it; the value used is the one
\* of the specification's proportionality example.  (The mock runtime's
\* 10^24 is a multiple of Perquintill's accuracy 10^18, for which the
\* rounding correction of p * era_reward is always zero; it is also beyond
\* the integers TLC can represent.)
RewardsPerEra == 1000000

\* Largest value of the Balance / Volume type (u128 in the runtime), scaled
\* down so that the checked additions can fail within the explored runs.
MaxValue == 1000000

\* Last block number explored; blocks advance by half an era.
MaxTick == 200

\* Number of calls (save_trading / take_reward) in one explored run.
MaxCalls == 4

\* Volumes offered to save_trading.
Vols == {0, 30, 70, MaxValue}

\* Number of calls in one run of SpecTrades, and the volumes offered there.
MaxTrades == 6

TradeVols == {30, 70}

\* Number of calls in one run of SpecAnyTick, and the volumes offered there.
MaxAnyCalls == 3

AnyVols == {70, MaxValue}

EraStarts == {t \in 0..MaxTick : t % EraDuration = 0}

\* The block numbers explored: era starts and the middle of each era.
Ticks == {t \in 0..MaxTick : t % (EraDuration \div 2) = 0}

NoAccount == "-"

----------------------------------------------------------------------------
(* Numeric types                                                           *)

\* checked_add's None.
NoValue == -1

\* CheckedAdd::checked_add on Balance / Volume.
checked_add(a, b) == IF a + b > MaxValue THEN NoValue ELSE a + b

\* Perquintill is a u64 count of parts per 10^18.  TLC's integers are 32 bit,
\* so a Perquintill and the u128 products of the multiplication are kept as
\* little-endian sequences of limbs in base 10^3; 10^18 = Limb^AccuracyLimbs.
Limb == 10^3

AccuracyLimbs == 6

Max(a, b) == IF a > b THEN a ELSE b

Min(a, b) == IF a < b THEN a ELSE b

RECURSIVE Reverse(_)
Reverse(s) == IF s = <<>> THEN <<>> ELSE Reverse(Tail(s)) \o <<Head(s)>>

\* The n limbs, most significant first, of floor(rem * Limb^n / d), rem < d.
RECURSIVE LongDiv(_, _, _)
LongDiv(rem, d, n) ==
    IF n = 0 THEN <<>>
    ELSE <<(rem * Limb) \div d>> \o LongDiv((rem * Limb) % d, d, n - 1)

\* Limbs (least significant first) of s * k + carry.
RECURSIVE MulLimbs(_, _, _)
MulLimbs(s, k, carry) ==
    IF s = <<>>
    THEN IF carry = 0 THEN <<>>
         ELSE <<carry % Limb>> \o MulLimbs(<<>>, k, carry \div Limb)
    ELSE LET t == Head(s) * k + carry
         IN  <<t % Limb>> \o MulLimbs(Tail(s), k, t \div Limb)

\* Value of a little-endian limb sequence.
RECURSIVE LimbsValue(_)
LimbsValue(s) == IF s = <<>> THEN 0 ELSE Head(s) + Limb * LimbsValue(Tail(s))

\* a > b for little-endian limb sequences of the same length.
RECURSIVE LimbsGreater(_, _)
LimbsGreater(a, b) ==
    IF a = <<>> THEN FALSE
    ELSE LET n == Len(a)
         IN  \/ a[n] > b[n]
             \/ a[n] = b[n] /\ LimbsGreater(SubSeq(a, 1, n - 1), SubSeq(b, 1, n - 1))

\* ACCURACY / 2 = 5 * 10^17.
HalfAccuracy == [i \in 1..AccuracyLimbs |-> IF i = AccuracyLimbs THEN Limb \div 2 ELSE 0]

\* Perquintill::from_rational(p, q): q = max(q, 1), p = min(p, q), and the
\* parts are p * 10^18 / q rounded down.  (The reducing factor
\* div_ceil(q, 10^18) is 1 for every q below 10^18.)
from_rational(p, q) ==
    LET q1 == Max(q, 1)
        p1 == Min(p, q1)
    IN  Reverse(<<p1 \div q1>> \o LongDiv(p1 % q1, q1, AccuracyLimbs))

\* Perquintill * u128 (Mul for a PerThing; overflow_prune_mul with rounding
\* to the nearest, an exact half going down):
\*   (x / 10^18) * parts + (x % 10^18) * parts / 10^18, the last division
\* rounded up when its remainder exceeds 10^18 / 2.  Every x here is below
\* 10^18, so x / 10^18 = 0 and x % 10^18 = x.
perquintill_mul(parts, x) ==
    LET rem_mul_upper == MulLimbs(parts, x, 0)
        n   == Len(rem_mul_upper)
        lo  == [i \in 1..AccuracyLimbs |-> IF i <= n THEN rem_mul_upper[i] ELSE 0]
        hi  == IF n > AccuracyLimbs THEN SubSeq(rem_mul_upper, AccuracyLimbs + 1, n) ELSE <<>>
        rem_mul_div_inner == LimbsValue(hi)
    IN  IF LimbsGreater(lo, HalfAccuracy) THEN rem_mul_div_inner + 1 ELSE rem_mul_div_inner

----------------------------------------------------------------------------
(* Storage                                                                 *)

\* Reward::default().
DefaultReward == [confirmed |-> 0, pending_vol |-> 0, last_modify |-> 0]

\* A storage map holds the keys that were written; a ValueQuery read of an
\* absent key gives the default.
Put(m, k, v) == [x \in DOMAIN m \cup {k} |-> IF x = k THEN v ELSE m[x]]

Remove(m, k) == [x \in DOMAIN m \ {k} |-> m[x]]

\* Self::rewards(who)
rewards_of(st, who) == IF who \in DOMAIN st.rewards THEN st.rewards[who] ELSE DefaultReward

\* Self::volumes(era)
volumes_of(st, era) == IF era \in DOMAIN st.volumes THEN st.volumes[era] ELSE 0

\* at - at % Self::era_duration()
era_start(at) == at - (at % EraDuration)

\* Results of the fallible functions: the Ok value or the error, the storage
\* as the function leaves it, and what the rotation did (for the history
\* variables): the branch taken, the amount added to confirmed and the era
\* whose volume was converted.
Ok(value, st, branch, a, from) ==
    [result |-> "Ok", site |-> "", value |-> value, st |-> st,
     branch |-> branch, awarded |-> a, from |-> from]

Err(e, site, st) ==
    [result |-> e, site |-> site, value |-> 0, st |-> st,
     branch |-> "", awarded |-> 0, from |-> 0]

\* #[transactional]: the storage changes of the body are committed when it
\* returns Ok and discarded when it returns Err.
transactional(pre, res) == IF res.result = "Ok" THEN res ELSE [res EXCEPT !.st = pre]

----------------------------------------------------------------------------
(* The pallet's functions                                                  *)

\* rotate_reward without the test `at == r.last_modify`: every call is
\* treated as an era advance.
rotate_reward_always_advances(st, at, vol, account) ==
    LET r == rewards_of(st, account)
    IN  IF r.pending_vol = 0
        THEN Ok(r.confirmed,
                [st EXCEPT !.rewards =
                    Put(@, account, [r EXCEPT !.pending_vol = vol, !.last_modify = at])],
                "skip", 0, r.last_modify)
        ELSE LET total_vol == volumes_of(st, r.last_modify)
             IN  IF ~(total_vol > 0)
                 THEN Err("DivideByZero", "total_vol", st)
                 ELSE LET a == perquintill_mul(from_rational(r.pending_vol, total_vol),
                                               RewardsPerEra)
                          c == checked_add(r.confirmed, a)
                      IN  IF c = NoValue
                          THEN Err("Overflow", "confirmed", st)
                          ELSE Ok(c,
                                  [st EXCEPT !.rewards =
                                      Put(@, account, [confirmed |-> c, pending_vol |-> vol,
                                                       last_modify |-> at])],
                                  "convert", a, r.last_modify)

\* rotate_reward without the test `r.pending_vol == Zero::zero()`: an era
\* advance always divides by the total of the old era.
rotate_reward_no_skip(st, at, vol, account) ==
    LET r == rewards_of(st, account)
    IN  IF at = r.last_modify
        THEN LET s == checked_add(r.pending_vol, vol)
             IN  IF s = NoValue
                 THEN Err("Overflow", "pending_vol", st)
                 ELSE Ok(r.confirmed,
                         [st EXCEPT !.rewards = Put(@, account, [r EXCEPT !.pending_vol = s])],
                         "same_era", 0, r.last_modify)
        ELSE LET total_vol == volumes_of(st, r.last_modify)
             IN  IF ~(total_vol > 0)
                 THEN Err("DivideByZero", "total_vol", st)
                 ELSE LET a == perquintill_mul(from_rational(r.pending_vol, total_vol),
                                               RewardsPerEra)
                          c == checked_add(r.confirmed, a)
                      IN  IF c = NoValue
                          THEN Err("Overflow", "confirmed", st)
                          ELSE Ok(c,
                                  [st EXCEPT !.rewards =
                                      Put(@, account, [confirmed |-> c, pending_vol |-> vol,
                                                       last_modify |-> at])],
                                  "convert", a, r.last_modify)

\* rotate_reward reading the total of the new era, Volumes::get(at), instead
\* of the total of the era that closed.
rotate_reward_total_of_new_era(st, at, vol, account) ==
    LET r == rewards_of(st, account)
    IN  IF at = r.last_modify
        THEN LET s == checked_add(r.pending_vol, vol)
             IN  IF s = NoValue
                 THEN Err("Overflow", "pending_vol", st)
                 ELSE Ok(r.confirmed,
                         [st EXCEPT !.rewards = Put(@, account, [r EXCEPT !.pending_vol = s])],
                         "same_era", 0, r.last_modify)
        ELSE IF r.pending_vol = 0
        THEN Ok(r.confirmed,
                [st EXCEPT !.rewards =
                    Put(@, account, [r EXCEPT !.pending_vol = vol, !.last_modify = at])],
                "skip", 0, r.last_modify)
        ELSE LET total_vol == volumes_of(st, at)
             IN  IF ~(total_vol > 0)
                 THEN Err("DivideByZero", "total_vol", st)
                 ELSE LET a == perquintill_mul(from_rational(r.pending_vol, total_vol),
                                               RewardsPerEra)
                          c == checked_add(r.confirmed, a)
                      IN  IF c = NoValue
                          THEN Err("Overflow", "confirmed", st)
                          ELSE Ok(c,
                                  [st EXCEPT !.rewards =
                                      Put(@, account, [confirmed |-> c, pending_vol |-> vol,
                                                       last_modify |-> at])],
                                  "convert", a, r.last_modify)

\* rotate_reward keeping the pending volume of the closed era when it
\* converts: the new pending volume is the old one plus vol.
rotate_reward_carries_pending(st, at, vol, account) ==
    LET r == rewards_of(st, account)
    IN  IF at = r.last_modify
        THEN LET s == checked_add(r.pending_vol, vol)
             IN  IF s = NoValue
                 THEN Err("Overflow", "pending_vol", st)
                 ELSE Ok(r.confirmed,
                         [st EXCEPT !.rewards = Put(@, account, [r EXCEPT !.pending_vol = s])],
                         "same_era", 0, r.last_modify)
        ELSE IF r.pending_vol = 0
        THEN Ok(r.confirmed,
                [st EXCEPT !.rewards =
                    Put(@, account, [r EXCEPT !.pending_vol = vol, !.last_modify = at])],
                "skip", 0, r.last_modify)
        ELSE LET pending_vol == r.pending_vol
                 total_vol   == volumes_of(st, r.last_modify)
             IN  IF ~(total_vol > 0)
                 THEN Err("DivideByZero", "total_vol", st)
                 ELSE LET p == from_rational(pending_vol, total_vol)
                          era_reward == RewardsPerEra
                          a == perquintill_mul(p, era_reward)
                          c == checked_add(r.confirmed, a)
                      IN  IF c = NoValue
                          THEN Err("Overflow", "confirmed", st)
                          ELSE Ok(c,
                                  [st EXCEPT !.rewards =
                                      Put(@, account, [confirmed |-> c, pending_vol |-> pending_vol + vol,
                                                       last_modify |-> at])],
                                  "convert", a, r.last_modify)

\* rotate_reward converting without `r.last_modify = at`: the record stays
\* in the era that was converted.
rotate_reward_keeps_last_modify(st, at, vol, account) ==
    LET r == rewards_of(st, account)
    IN  IF at = r.last_modify
        THEN LET s == checked_add(r.pending_vol, vol)
             IN  IF s = NoValue
                 THEN Err("Overflow", "pending_vol", st)
                 ELSE Ok(r.confirmed,
                         [st EXCEPT !.rewards = Put(@, account, [r EXCEPT !.pending_vol = s])],
                         "same_era", 0, r.last_modify)
        ELSE IF r.pending_vol = 0
        THEN Ok(r.confirmed,
                [st EXCEPT !.rewards =
                    Put(@, account, [r EXCEPT !.pending_vol = vol, !.last_modify = at])],
                "skip", 0, r.last_modify)
        ELSE LET pending_vol == r.pending_vol
                 total_vol   == volumes_of(st, r.last_modify)
             IN  IF ~(total_vol > 0)
                 THEN Err("DivideByZero", "total_vol", st)
                 ELSE LET p == from_rational(pending_vol, total_vol)
                          era_reward == RewardsPerEra
                          a == perquintill_mul(p, era_reward)
                          c == checked_add(r.confirmed, a)
                      IN  IF c = NoValue
                          THEN Err("Overflow", "confirmed", st)
                          ELSE Ok(c,
                                  [st EXCEPT !.rewards =
                                      Put(@, account, [confirmed |-> c, pending_vol |-> vol,
                                                       last_modify |-> r.last_modify])],
                                  "convert", a, r.last_modify)

\* rotate_reward storing the award of the closed era as `confirmed`, not
\* adding it.
rotate_reward_overwrites_confirmed(st, at, vol, account) ==
    LET r == rewards_of(st, account)
    IN  IF at = r.last_modify
        THEN LET s == checked_add(r.pending_vol, vol)
             IN  IF s = NoValue
                 THEN Err("Overflow", "pending_vol", st)
                 ELSE Ok(r.confirmed,
                         [st EXCEPT !.rewards = Put(@, account, [r EXCEPT !.pending_vol = s])],
                         "same_era", 0, r.last_modify)
        ELSE IF r.pending_vol = 0
        THEN Ok(r.confirmed,
                [st EXCEPT !.rewards =
                    Put(@, account, [r EXCEPT !.pending_vol = vol, !.last_modify = at])],
                "skip", 0, r.last_modify)
        ELSE LET pending_vol == r.pending_vol
                 total_vol   == volumes_of(st, r.last_modify)
             IN  IF ~(total_vol > 0)
                 THEN Err("DivideByZero", "total_vol", st)
                 ELSE LET p == from_rational(pending_vol, total_vol)
                          era_reward == RewardsPerEra
                          a == perquintill_mul(p, era_reward)
                          c == a
                      IN  IF c = NoValue
                          THEN Err("Overflow", "confirmed", st)
                          ELSE Ok(c,
                                  [st EXCEPT !.rewards =
                                      Put(@, account, [confirmed |-> c, pending_vol |-> vol,
                                                       last_modify |-> at])],
                                  "convert", a, r.last_modify)

\* rotate_reward(at, vol, account): the closure of Rewards::try_mutate,
\* which writes the record back (a default one included) when it returns Ok.
rotate_reward_body(st, at, vol, account) ==
    LET r == rewards_of(st, account)
    IN  IF at = r.last_modify
        THEN LET s == checked_add(r.pending_vol, vol)
             IN  IF s = NoValue
                 THEN Err("Overflow", "pending_vol", st)
                 ELSE Ok(r.confirmed,
                         [st EXCEPT !.rewards = Put(@, account, [r EXCEPT !.pending_vol = s])],
                         "same_era", 0, r.last_modify)
        ELSE IF r.pending_vol = 0
        THEN Ok(r.confirmed,
                [st EXCEPT !.rewards =
                    Put(@, account, [r EXCEPT !.pending_vol = vol, !.last_modify = at])],
                "skip", 0, r.last_modify)
        ELSE LET pending_vol == r.pending_vol
                 total_vol   == volumes_of(st, r.last_modify)
             IN  IF ~(total_vol > 0)
                 THEN Err("DivideByZero", "total_vol", st)
                 ELSE LET p == from_rational(pending_vol, total_vol)
                          era_reward == RewardsPerEra
                          a == perquintill_mul(p, era_reward)
                          c == checked_add(r.confirmed, a)
                      IN  IF c = NoValue
                          THEN Err("Overflow", "confirmed", st)
                          ELSE Ok(c,
                                  [st EXCEPT !.rewards =
                                      Put(@, account, [confirmed |-> c, pending_vol |-> vol,
                                                       last_modify |-> at])],
                                  "convert", a, r.last_modify)

rotate_reward(st, at, vol, account) ==
    transactional(st, rotate_reward_body(st, at, vol, account))

\* T::Asset::try_mutate_account(native_token_id, who, |b| b.0 += confirmed):
\* the credit of the external balance store, which may refuse (credit_ok).
credit(st, who, amount) == [st EXCEPT !.balances[who] = @ + amount]

\* claim_take with `reward.confirmed = Zero::zero()` left out.
claim_take_keeps_confirmed(st, who, rot, credit_ok) ==
    IF who \notin DOMAIN st.rewards
    THEN Err("RewardNotFound", "rewards", st)
    ELSE LET reward    == st.rewards[who]
             confirmed == reward.confirmed
             kept      == IF reward.pending_vol > 0
                          THEN [st EXCEPT !.rewards = Put(@, who, reward)]
                          ELSE [st EXCEPT !.rewards = Remove(@, who)]
         IN  IF confirmed > 0
             THEN IF credit_ok
                  THEN Ok(confirmed, credit(kept, who, confirmed),
                          rot.branch, rot.awarded, rot.from)
                  ELSE [Err("CreditFailed", "try_mutate_account", st)
                            EXCEPT !.branch = rot.branch]
             ELSE Ok(confirmed, kept, rot.branch, rot.awarded, rot.from)

\* claim_take without `r.replace(reward)`: the record is always dropped.
claim_take_drops_record(st, who, rot, credit_ok) ==
    IF who \notin DOMAIN st.rewards
    THEN Err("RewardNotFound", "rewards", st)
    ELSE LET confirmed == st.rewards[who].confirmed
             kept      == [st EXCEPT !.rewards = Remove(@, who)]
         IN  IF confirmed > 0
             THEN IF credit_ok
                  THEN Ok(confirmed, credit(kept, who, confirmed),
                          rot.branch, rot.awarded, rot.from)
                  ELSE [Err("CreditFailed", "try_mutate_account", st)
                            EXCEPT !.branch = rot.branch]
             ELSE Ok(confirmed, kept, rot.branch, rot.awarded, rot.from)

\* claim_take crediting the amount without taking it out of the record.
claim_take_credit_only(st, who, rot, credit_ok) ==
    IF who \notin DOMAIN st.rewards
    THEN Err("RewardNotFound", "rewards", st)
    ELSE LET confirmed == st.rewards[who].confirmed
         IN  IF confirmed > 0
             THEN IF credit_ok
                  THEN Ok(confirmed, credit(st, who, confirmed),
                          rot.branch, rot.awarded, rot.from)
                  ELSE [Err("CreditFailed", "try_mutate_account", st)
                            EXCEPT !.branch = rot.branch]
             ELSE Ok(confirmed, st, rot.branch, rot.awarded, rot.from)

\* claim_take testing `r.is_some()` after `r.take()` has emptied the entry.
claim_take_ensure_after_take(st, who, rot, credit_ok) ==
    Err("RewardNotFound", "rewards", st)

\* The closure of Rewards::try_mutate_exists in claim_reward, run on the
\* storage the rotation left; nothing of it is written when it returns Err.
claim_take(st, who, rot, credit_ok) ==
    IF who \notin DOMAIN st.rewards
    THEN Err("RewardNotFound", "rewards", st)
    ELSE LET reward    == st.rewards[who]
             confirmed == reward.confirmed
             zeroed    == [reward EXCEPT !.confirmed = 0]
             kept      == IF reward.pending_vol > 0
                          THEN [st EXCEPT !.rewards = Put(@, who, zeroed)]
                          ELSE [st EXCEPT !.rewards = Remove(@, who)]
         IN  IF confirmed > 0
             THEN IF credit_ok
                  THEN Ok(confirmed, credit(kept, who, confirmed),
                          rot.branch, rot.awarded, rot.from)
                  ELSE [Err("CreditFailed", "try_mutate_account", st)
                            EXCEPT !.branch = rot.branch]
             ELSE Ok(confirmed, kept, rot.branch, rot.awarded, rot.from)

\* claim_reward rotating at the block number itself, not at its era start.
claim_reward_raw_block(st, who, at0, credit_ok) ==
    LET rot == rotate_reward(st, at0, 0, who)
    IN  IF rot.result # "Ok" THEN rot
        ELSE IF rot.value = 0 THEN rot
        ELSE claim_take(rot.st, who, rot, credit_ok)

claim_reward_body(st, who, at0, credit_ok) ==
    LET at  == era_start(at0)
        rot == rotate_reward(st, at, 0, who)
    IN  IF rot.result # "Ok" THEN rot
        ELSE IF rot.value = 0 THEN rot
        ELSE claim_take(rot.st, who, rot, credit_ok)

\* claim_reward without #[transactional].
claim_reward_not_transactional(st, who, at0, credit_ok) ==
    claim_reward_body(st, who, at0, credit_ok)

claim_reward(st, who, at0, credit_ok) ==
    transactional(st, claim_reward_body(st, who, at0, credit_ok))

\* save_trading closing the era for every stored account: after the trader,
\* each other account with a record is rotated with a zero volume.
save_trading_rotates_all(st, trader, vol, at0) ==
    IF vol = 0 THEN Ok(0, st, "", 0, 0)
    ELSE LET at == era_start(at0)
             v  == checked_add(volumes_of(st, at), vol)
         IN  IF v = NoValue
             THEN Err("Overflow", "volumes", st)
             ELSE LET res == rotate_reward([st EXCEPT !.volumes = Put(@, at, v)],
                                           at, vol, trader)
                  IN  IF res.result # "Ok" THEN res
                      ELSE [res EXCEPT !.st.rewards =
                               [b \in DOMAIN @ |->
                                   IF b = trader THEN @[b]
                                   ELSE rotate_reward(res.st, at, 0, b).st.rewards[b]]]

\* save_trading without `at - at % Self::era_duration()`: the era total and
\* the rotation are keyed by the block number itself.
save_trading_raw_block(st, trader, vol, at0) ==
    IF vol = 0 THEN Ok(0, st, "", 0, 0)
    ELSE LET at == at0
             v  == checked_add(volumes_of(st, at), vol)
         IN  IF v = NoValue
             THEN Err("Overflow", "volumes", st)
             ELSE rotate_reward([st EXCEPT !.volumes = Put(@, at, v)], at, vol, trader)

\* save_trading rotating the trader without adding to the era total.
save_trading_rotate_only(st, trader, vol, at0) ==
    IF vol = 0 THEN Ok(0, st, "", 0, 0)
    ELSE rotate_reward(st, era_start(at0), vol, trader)

\* save_trading adding the volume to the total of the era of the trader's
\* last_modify, not to the total of the era of the block.
save_trading_total_of_last_modify(st, trader, vol, at0) ==
    IF vol = 0 THEN Ok(0, st, "", 0, 0)
    ELSE LET at == era_start(at0)
             lm == rewards_of(st, trader).last_modify
             v  == checked_add(volumes_of(st, lm), vol)
         IN  IF v = NoValue
             THEN Err("Overflow", "volumes", st)
             ELSE rotate_reward([st EXCEPT !.volumes = Put(@, lm, v)], at, vol, trader)

\* save_trading without the early return for a zero volume.
save_trading_no_zero_check(st, trader, vol, at0) ==
    LET at == era_start(at0)
        v  == checked_add(volumes_of(st, at), vol)
    IN  IF v = NoValue
        THEN Err("Overflow", "volumes", st)
        ELSE rotate_reward([st EXCEPT !.volumes = Put(@, at, v)], at, vol, trader)

save_trading_body(st, trader, vol, at0) ==
    IF vol = 0 THEN Ok(0, st, "", 0, 0)
    ELSE LET at == era_start(at0)
             v  == checked_add(volumes_of(st, at), vol)
         IN  IF v = NoValue
             THEN Err("Overflow", "volumes", st)
             ELSE rotate_reward([st EXCEPT !.volumes = Put(@, at, v)], at, vol, trader)

\* save_trading without #[transactional].
save_trading_not_transactional(st, trader, vol, at0) ==
    save_trading_body(st, trader, vol, at0)

save_trading(st, trader, vol, at0) ==
    transactional(st, save_trading_body(st, trader, vol, at0))

\* Self::total_volume(at)
total_volume(st, at) == volumes_of(st, era_start(at))

\* Self::acked_reward(who)
acked_reward(st, who) == rewards_of(st, who).confirmed

----------------------------------------------------------------------------
(* The state machine                                                       *)

storage == [rewards |-> rewards, volumes |-> volumes, balances |-> balances]

NoCall == [op |-> "none", who |-> NoAccount, vol |-> 0, at |-> 0, again |-> FALSE,
           result |-> "Ok", site |-> "",
           ret |-> 0, credited |-> 0, branch |-> "", awarded |-> 0, from |-> 0]

Init ==
    /\ rewards = <<>>
    /\ volumes = <<>>
    /\ balances = [a \in AccountId |-> 0]
    /\ now = 0
    /\ calls = 0
    /\ last = NoCall
    /\ awarded = [e \in EraStarts |-> 0]
    /\ unclaimed = [a \in AccountId |-> 0]
    /\ recorded = [a \in AccountId |-> [e \in EraStarts |-> 0]]
    /\ converted = [a \in AccountId |-> [e \in EraStarts |-> <<>>]]

\* The call before was a claim_reward of `who` in block `at` that succeeded
\* with a nonzero amount.
Claimed(who, at) ==
    /\ last.op = "claim_reward" /\ last.who = who /\ last.at = at
    /\ last.result = "Ok" /\ last.ret > 0

\* What a finished call leaves: the storage, the record of the call, and the
\* history of the awards, the recorded volumes and the conversions that were
\* committed.
Commit(op, who, vol, res) ==
    /\ rewards' = res.st.rewards
    /\ volumes' = res.st.volumes
    /\ balances' = res.st.balances
    /\ calls' = calls + 1
    /\ last' = [op |-> op, who |-> who, vol |-> vol, at |-> now,
                again |-> op = "claim_reward" /\ Claimed(who, now),
                result |-> res.result,
                site |-> res.site,
                ret |-> IF op = "claim_reward" THEN res.value ELSE 0,
                credited |-> res.st.balances[who] - balances[who],
                branch |-> res.branch, awarded |-> res.awarded, from |-> res.from]
    /\ awarded' = IF res.result = "Ok" /\ res.branch = "convert"
                  THEN [awarded EXCEPT ![res.from] = @ + res.awarded]
                  ELSE awarded
    /\ unclaimed' = IF res.result # "Ok" THEN unclaimed
                    ELSE IF op = "claim_reward" /\ res.value > 0
                    THEN [unclaimed EXCEPT ![who] = 0]
                    ELSE [unclaimed EXCEPT ![who] = @ + res.awarded]
    /\ recorded' = IF res.result = "Ok" /\ op = "save_trading"
                   THEN [recorded EXCEPT ![who][era_start(now)] = @ + vol]
                   ELSE recorded
    /\ converted' = IF res.result = "Ok" /\ res.branch = "convert"
                    THEN [converted EXCEPT ![who][res.from] =
                              Append(@, rewards_of(storage, who).pending_vol)]
                    ELSE converted
    /\ UNCHANGED now

\* Another pallet reports a trade of `trader` in the current block.
SaveTrading(trader, vol) ==
    Commit("save_trading", trader, vol, save_trading(storage, trader, vol, now))

\* The take_reward extrinsic, signed by `who`, in the current block.
TakeReward(who, credit_ok) ==
    Commit("claim_reward", who, 0, claim_reward(storage, who, now, credit_ok))

\* The chain advances (by half an era, so that block numbers inside an era
\* are seen as well as era starts).
NextBlock ==
    /\ now + EraDuration \div 2 <= MaxTick
    /\ now' = now + EraDuration \div 2
    /\ UNCHANGED <<rewards, volumes, balances, calls, last, awarded, unclaimed,
                   recorded, converted>>

\* Any accounts, any of the volumes, credits that succeed or fail.
Next ==
    \/ calls < MaxCalls /\ \E trader \in AccountId, vol \in Vols : SaveTrading(trader, vol)
    \/ calls < MaxCalls /\ \E who \in AccountId, credit_ok \in BOOLEAN : TakeReward(who, credit_ok)
    \/ NextBlock

Spec == Init /\ [][Next]_vars

\* Longer runs of ordinary trading: the volumes of the proportionality
\* example, credits that succeed.
NextTrades ==
    \/ calls < MaxTrades /\ \E trader \in AccountId, vol \in TradeVols : SaveTrading(trader, vol)
    \/ calls < MaxTrades /\ \E who \in AccountId : TakeReward(who, TRUE)
    \/ NextBlock

SpecTrades == Init /\ [][NextTrades]_vars

\* The Rewarding trait takes the time tick from its caller: the calls of
\* another pallet may come with any tick, earlier ones included.
AnyBlock ==
    /\ \E t \in Ticks : t # now /\ now' = t
    /\ UNCHANGED <<rewards, volumes, balances, calls, last, awarded, unclaimed,
                   recorded, converted>>

\* An ordinary volume and the largest one (a zero volume is a no-op) and
\* credits that succeed (a failed credit rolls the call back).
NextAnyTick ==
    \/ calls < MaxAnyCalls /\ \E trader \in AccountId, vol \in AnyVols : SaveTrading(trader, vol)
    \/ calls < MaxAnyCalls /\ \E who \in AccountId : TakeReward(who, TRUE)
    \/ AnyBlock

SpecAnyTick == Init /\ [][NextAnyTick]_vars

----------------------------------------------------------------------------
(* Properties                                                              *)

\* A Reward record as Self::rewards reads it from a Rewards map.
RewardView(rw, who) == IF who \in DOMAIN rw THEN rw[who] ELSE DefaultReward

\* The step is a call (not a block).
Called == calls' = calls + 1

\* C1 -- Reward conservation per era: the amounts that rotations add to
\* `confirmed` for the pending volume of one era sum, over all accounts, to
\* at most RewardsPerEra.
RewardConservation == \A e \in EraStarts : awarded[e] <= RewardsPerEra

\* C2 -- No double-claim: a claim_reward that directly follows a successful,
\* nonzero claim_reward of the same account in the same block returns zero
\* and credits nothing.
NoDoubleClaim ==
    last.again => last.result = "Ok" /\ last.ret = 0 /\ last.credited = 0

\* The second claim was made while the first claim had kept the record.
NoDoubleClaimWitness ==
    /\ last.again
    /\ balances[last.who] > 0
    /\ rewards_of(storage, last.who).pending_vol > 0

\* The second claim was made after the first claim had dropped the record.
NoDoubleClaimDropped ==
    /\ last.again
    /\ balances[last.who] > 0
    /\ rewards_of(storage, last.who).pending_vol = 0

\* C3 -- Claim atomicity: a claim_reward whose external credit fails leaves
\* every Reward record and every era total (and the balances) as they were
\* before the call, the rotation at the start of the claim included.
ClaimAtomicity ==
    [][Called /\ last'.op = "claim_reward" /\ last'.result = "CreditFailed"
         => rewards' = rewards /\ volumes' = volumes /\ balances' = balances]_vars

\* A credit failed after the rotation of the claim had converted volume.
ClaimAtomicityWitness ==
    /\ last.op = "claim_reward" /\ last.result = "CreditFailed"
    /\ last.branch = "convert"
    /\ rewards_of(storage, last.who).pending_vol > 0
    /\ rewards_of(storage, last.who).last_modify # era_start(last.at)

\* C4 -- Overflow leaves no partial state: a save_trading that fails with
\* Overflow leaves every Reward record and every era total as they were.
OverflowNoPartialState ==
    [][Called /\ last'.op = "save_trading" /\ last'.result = "Overflow"
         => rewards' = rewards /\ volumes' = volumes /\ balances' = balances]_vars

\* The rotation overflowed `confirmed` after the era total had been raised.
OverflowNoPartialStateWitness ==
    /\ last.op = "save_trading" /\ last.result = "Overflow"
    /\ last.site = "confirmed"
    /\ volumes_of(storage, era_start(last.at)) = 0

\* C5 as claimed -- Idempotent zero-claim: a claim_reward of an account whose
\* stored confirmed balance is zero changes no Reward record and no era
\* total, and returns zero.
ZeroClaimNoMutation ==
    [][Called /\ last'.op = "claim_reward"
          /\ acked_reward(storage, last'.who) = 0
         => /\ last'.result = "Ok" /\ last'.ret = 0
            /\ \A a \in AccountId : RewardView(rewards', a) = RewardView(rewards, a)
            /\ volumes' = volumes]_vars

\* C5 as amended -- the same, for a claim made in the era of the record's
\* last_modify.
ZeroClaimSameEra ==
    [][Called /\ last'.op = "claim_reward"
          /\ acked_reward(storage, last'.who) = 0
          /\ rewards_of(storage, last'.who).last_modify = era_start(now)
         => /\ last'.result = "Ok" /\ last'.ret = 0
            /\ \A a \in AccountId : RewardView(rewards', a) = RewardView(rewards, a)
            /\ volumes' = volumes /\ balances' = balances]_vars

\* A zero claim in the open era of an account that has pending volume, in an
\* era other than the first.
ZeroClaimSameEraWitness ==
    /\ last.op = "claim_reward" /\ last.result = "Ok" /\ last.ret = 0
    /\ last.branch = "same_era"
    /\ rewards_of(storage, last.who).pending_vol > 0
    /\ rewards_of(storage, last.who).last_modify > 0

\* C6 -- Single rotation per era boundary: every call that rotates an
\* account at the era start that is the record's last_modify, however many
\* in a row, only adds the incoming volume to pending_vol: confirmed and
\* last_modify stay, nothing is awarded, and the rotation returns the
\* unchanged confirmed value (which a claim then returns to its caller).
SingleRotationPerEra ==
    [][\A a \in AccountId :
        LET r == rewards_of(storage, a)
        IN  /\ Called /\ last'.who = a
            /\ last'.op = "save_trading" => last'.vol > 0
            /\ r.last_modify = era_start(now)
            => /\ last'.awarded = 0 /\ awarded' = awarded
               /\ last'.op = "save_trading" =>
                    IF last'.result = "Ok"
                    THEN RewardView(rewards', a) = [r EXCEPT !.pending_vol = @ + last'.vol]
                    ELSE last'.result = "Overflow" /\ rewards' = rewards
               /\ last'.op = "claim_reward" =>
                    /\ last'.result \in {"Ok", "CreditFailed"}
                    /\ last'.result = "Ok" =>
                         /\ last'.ret = r.confirmed
                         /\ RewardView(rewards', a).pending_vol = r.pending_vol
                         /\ r.pending_vol > 0 \/ last'.ret = 0
                              => RewardView(rewards', a).last_modify = r.last_modify]_vars

\* A trade added to the pending volume of an account in its open era, which
\* already held volume of that era and a confirmed balance.
SingleRotationPerEraWitness ==
    /\ last.op = "save_trading" /\ last.result = "Ok" /\ last.branch = "same_era"
    /\ last.vol > 0
    /\ rewards_of(storage, last.who).pending_vol > last.vol
    /\ rewards_of(storage, last.who).confirmed > 0
    /\ rewards_of(storage, last.who).last_modify = era_start(last.at)

\* C7 -- Proportional award: with EraDuration = 100 and RewardsPerEra =
\* 1,000,000, when the total of era 0 is 100, made of 30 by one account and
\* 70 by another, the first rotation at era start 100 of the account with 30
\* adds exactly 300,000 to its confirmed balance and that of the account
\* with 70 exactly 700,000, in either order, by a trade or by a claim.
ProportionalAward ==
    [][\A a \in AccountId :
        LET r == rewards_of(storage, a)
        IN  /\ Called /\ last'.who = a /\ last'.result = "Ok"
            /\ last'.op = "save_trading" => last'.vol > 0
            /\ era_start(now) = EraDuration
            /\ volumes_of(storage, 0) = 100
            /\ r.last_modify = 0 /\ r.pending_vol \in {30, 70}
            => /\ last'.awarded = r.pending_vol * 10000
               /\ awarded'[0] = awarded[0] + r.pending_vol * 10000
               /\ last'.op = "save_trading"
                    => RewardView(rewards', a).confirmed = r.confirmed + r.pending_vol * 10000
               /\ last'.op = "claim_reward"
                    => /\ last'.ret = r.confirmed + r.pending_vol * 10000
                       /\ balances'[a] = balances[a] + last'.ret]_vars

\* B, with 70 of the 100 of era 0, was rotated by a claim after A, with 30,
\* had been rotated by a trade.
ProportionalAwardWitness ==
    /\ era_start(now) = EraDuration /\ volumes_of(storage, 0) = 100
    /\ last.op = "claim_reward" /\ last.who = "B" /\ last.result = "Ok"
    /\ last.awarded = 700000 /\ balances["B"] = 700000
    /\ rewards_of(storage, "A").confirmed = 300000
    /\ awarded[0] = 1000000

\* C8 -- Round trip after claim: acked_reward is zero after a successful
\* claim_reward, and at any time it is the sum of the awards computed for
\* the account since its last successful claim: nothing that was claimed
\* comes back.
RoundTrip ==
    /\ last.op = "claim_reward" /\ last.result = "Ok"
         => acked_reward(storage, last.who) = 0
    /\ \A a \in AccountId : acked_reward(storage, a) = unclaimed[a]

\* An account that claimed, traded again and was rotated after the era
\* advanced.
RoundTripWitness ==
    /\ last.op = "save_trading" /\ last.result = "Ok" /\ last.branch = "convert"
    /\ balances[last.who] > 0
    /\ acked_reward(storage, last.who) = last.awarded
    /\ last.awarded > 0

\* C9 -- Stale account skip: a call that rotates an account with zero
\* pending_vol at an era start other than its last_modify never fails in the
\* rotation (no DivideByZero, also when the total of the old era is zero);
\* the rotation awards nothing, leaves confirmed unchanged and sets
\* pending_vol to the incoming volume and last_modify to the era start.
StaleAccountSkip ==
    [][\A a \in AccountId :
        LET r == rewards_of(storage, a)
        IN  /\ Called /\ last'.who = a
            /\ last'.op = "save_trading" => last'.vol > 0
            /\ r.pending_vol = 0 /\ r.last_modify # era_start(now)
            => /\ last'.awarded = 0 /\ awarded' = awarded
               /\ last'.op = "save_trading" =>
                    IF last'.result = "Ok"
                    THEN RewardView(rewards', a) =
                            [confirmed |-> r.confirmed, pending_vol |-> last'.vol,
                             last_modify |-> era_start(now)]
                    ELSE last'.result = "Overflow" /\ last'.site = "volumes"
               /\ last'.op = "claim_reward" =>
                    /\ last'.result \in {"Ok", "CreditFailed"}
                    /\ last'.result = "Ok" => last'.ret = r.confirmed
                    /\ last'.result = "Ok" /\ last'.ret = 0 =>
                         RewardView(rewards', a) =
                            [confirmed |-> 0, pending_vol |-> 0,
                             last_modify |-> era_start(now)]]_vars

\* A trade of an account without pending volume, in a later era than its
\* last_modify, whose old era has a zero total.
StaleAccountSkipWitness ==
    /\ last.op = "save_trading" /\ last.result = "Ok" /\ last.branch = "skip"
    /\ last.from # era_start(last.at)
    /\ last.from > 0
    /\ volumes_of(storage, last.from) = 0
    /\ rewards_of(storage, last.who).last_modify = era_start(last.at)

\* C10 -- Claim preserves open-era pending volume: a successful claim_reward
\* in the era of the account's last_modify, with nonzero pending_vol,
\* returns and credits exactly the stored confirmed amount, sets confirmed
\* to zero and leaves pending_vol and last_modify as they were, in a stored
\* record, so that the next era advance converts that volume.
ClaimKeepsPending ==
    [][\A a \in AccountId :
        LET r == rewards_of(storage, a)
        IN  /\ Called /\ last'.op = "claim_reward" /\ last'.who = a
            /\ last'.result = "Ok"
            /\ r.last_modify = era_start(now) /\ r.pending_vol > 0
            => /\ last'.ret = r.confirmed
               /\ balances' = [balances EXCEPT ![a] = @ + r.confirmed]
               /\ a \in DOMAIN rewards'
               /\ rewards'[a] = [r EXCEPT !.confirmed = 0]
               /\ volumes' = volumes
               /\ LET res == rotate_reward(
                                [rewards |-> rewards', volumes |-> volumes',
                                 balances |-> balances'],
                                era_start(now) + EraDuration, 0, a)
                  IN  res.branch = "convert"]_vars

\* A nonzero claim of an account with pending volume of the open era.
ClaimKeepsPendingWitness ==
    /\ last.op = "claim_reward" /\ last.result = "Ok" /\ last.ret > 0
    /\ ~last.again
    /\ last.branch = "same_era"
    /\ last.credited = last.ret
    /\ rewards_of(storage, last.who).pending_vol > 0

\* C11 -- Zero-volume no-op: a save_trading with vol = 0 succeeds and changes
\* no Reward record and no era total (and no balance); it rotates nothing,
\* also when the block is in a later era than the trader's last_modify and
\* the trader has pending volume.
ZeroVolumeNoOp ==
    [][Called /\ last'.op = "save_trading" /\ last'.vol = 0
         => /\ last'.result = "Ok" /\ last'.branch = ""
            /\ rewards' = rewards /\ volumes' = volumes /\ balances' = balances
            /\ awarded' = awarded /\ converted' = converted]_vars

\* A zero volume was reported for a trader whose pending volume is of an
\* earlier era.
ZeroVolumeNoOpWitness ==
    /\ last.op = "save_trading" /\ last.vol = 0 /\ last.result = "Ok"
    /\ last.who \in DOMAIN rewards
    /\ rewards[last.who].pending_vol > 0
    /\ rewards[last.who].last_modify < era_start(last.at)

\* An era total as Self::volumes reads it from a Volumes map.
VolumeView(vm, era) == IF era \in DOMAIN vm THEN vm[era] ELSE 0

\* C12 -- Frozen era total: with the non-decreasing block numbers of the
\* chain, the stored total of an era E does not change in a call made in an
\* era later than E, nor in any step after such a call; and a rotation that
\* converts the pending volume of era E runs in a call of a later era, so
\* every conversion of era E reads the same, final total.
FrozenEraTotal ==
    [][/\ \A e \in EraStarts :
            \/ Called /\ era_start(last'.at) > e
            \/ last.op # "none" /\ era_start(last.at) > e
            => VolumeView(volumes', e) = VolumeView(volumes, e)
       /\ Called /\ last'.result = "Ok" /\ last'.branch = "convert"
            => /\ last'.from < era_start(last'.at)
               /\ VolumeView(volumes', last'.from) = VolumeView(volumes, last'.from)]_vars

\* A trade of a later era converted the pending volume of an era in which
\* other accounts had traded as well.
FrozenEraTotalWitness ==
    /\ last.op = "save_trading" /\ last.result = "Ok" /\ last.branch = "convert"
    /\ last.from < era_start(last.at)
    /\ converted[last.who][last.from] # <<>>
    /\ volumes_of(storage, last.from) > converted[last.who][last.from][1]
    /\ volumes_of(storage, era_start(last.at)) > 0

\* C13 -- DivideByZero is unreachable: whatever the accounts, volumes and
\* time ticks of the calls, no call fails with DivideByZero, and an account
\* with nonzero pending_vol has a nonzero stored total for the era in its
\* last_modify.
NoDivideByZero ==
    /\ last.result # "DivideByZero"
    /\ \A a \in DOMAIN rewards :
           rewards[a].pending_vol > 0 => volumes_of(storage, rewards[a].last_modify) > 0

\* A call with a tick of an earlier era converted the pending volume of a
\* later era (and so divided by its total).
NoDivideByZeroWitness ==
    /\ last.result = "Ok" /\ last.branch = "convert"
    /\ last.from > era_start(last.at)
    /\ last.awarded > 0

\* f[x] summed over the x of the set S.
RECURSIVE SetSum(_, _)
SetSum(f, S) ==
    IF S = {} THEN 0
    ELSE LET x == CHOOSE y \in S : TRUE
         IN  f[x] + SetSum(f, S \ {x})

\* The sum of pending_vol over the accounts whose last_modify is `era`.
PendingOf(era) ==
    SetSum([a \in AccountId |->
               IF rewards_of(storage, a).last_modify = era
               THEN rewards_of(storage, a).pending_vol ELSE 0],
           AccountId)

\* C14 -- Pending volume is bounded by the era total: for every era E, the
\* sum of pending_vol over all accounts whose last_modify equals E is at most
\* the stored total volume of era E.
PendingBoundedByTotal ==
    \A e \in EraStarts : PendingOf(e) <= volumes_of(storage, e)

\* One account's volume of an era has been rotated away while another's is
\* still pending there: the pending sum is below the total.
PendingBoundedByTotalWitness ==
    \E e \in EraStarts :
        /\ 0 < PendingOf(e) /\ PendingOf(e) < volumes_of(storage, e)
        /\ \E a \in AccountId : converted[a][e] # <<>>

\* C15 -- Exactly-once conversion: with non-decreasing block numbers, the
\* volume of an account in an era is converted at most once, the pending
\* volume used by that conversion is the sum of the volumes the account
\* successfully recorded in the era, and volume that has not been converted
\* is still the account's pending volume of that era (not carried into
\* another era, not lost at the boundary or by a claim).
ExactlyOnceConversion ==
    \A a \in AccountId, e \in EraStarts :
        /\ Len(converted[a][e]) <= 1
        /\ converted[a][e] # <<>> => converted[a][e][1] = recorded[a][e]
        /\ converted[a][e] = <<>> /\ recorded[a][e] > 0
             => /\ rewards_of(storage, a).last_modify = e
                /\ rewards_of(storage, a).pending_vol = recorded[a][e]

\* The volume of two trades of one account in one era was converted, and the
\* account has recorded volume in the next era.
ExactlyOnceConversionWitness ==
    \E a \in AccountId, e \in EraStarts :
        /\ recorded[a][e] = 100
        /\ converted[a][e] = <<100>>
        /\ rewards_of(storage, a).last_modify > e
        /\ rewards_of(storage, a).pending_vol > 0

\* The sum, over all accounts, of the volumes that successful save_trading
\* calls recorded at ticks of the era `era`.
RecordedOf(era) == SetSum([a \in AccountId |-> recorded[a][era]], AccountId)

\* C16 -- Era total is the sum of recorded volume: total_volume(t) is the sum
\* of the volumes of all successful save_trading calls, by any account, whose
\* tick lies in the era of t, and zero if there were none; as the recorded
\* volume only changes in save_trading, no claim_reward changes a total.
EraTotalIsSum ==
    \A t \in Ticks : total_volume(storage, t) = RecordedOf(era_start(t))

\* Two accounts traded in one era and one of them was paid its reward since;
\* a tick in the middle of the era reads the sum of the two volumes.
EraTotalIsSumWitness ==
    \E t \in Ticks \ EraStarts :
        /\ recorded["A"][era_start(t)] > 0 /\ recorded["B"][era_start(t)] > 0
        /\ total_volume(storage, t) = recorded["A"][era_start(t)] + recorded["B"][era_start(t)]
        /\ last.op = "claim_reward" /\ last.result = "Ok" /\ last.ret > 0

\* C17 -- RewardNotFound is unreachable: no claim_reward fails with
\* RewardNotFound, because the rotation at the start of the claim leaves a
\* stored Reward record for the account: a claim that returns zero leaves the
\* record the rotation wrote, and a claim that pays has taken it.
NoRewardNotFound ==
    /\ last.result # "RewardNotFound"
    /\ last.op = "claim_reward" /\ last.result = "Ok" /\ last.ret = 0
         => last.who \in DOMAIN rewards

\* A claim took the record of an account and paid what its own rotation had
\* converted; the record had no pending volume left and was dropped.
NoRewardNotFoundWitness ==
    /\ last.op = "claim_reward" /\ last.result = "Ok"
    /\ last.branch = "convert" /\ last.ret > 0 /\ last.credited = last.ret
    /\ last.who \notin DOMAIN rewards

\* Limbs (least significant first) of the number n.
LimbsOf(n) == MulLimbs(<<>>, 0, n)

\* The limb sequence s extended by zero limbs to the length n.
PadLimbs(s, n) == s \o [i \in 1..(n - Len(s)) |-> 0]

\* a * k > b * m, computed on limbs (the products exceed 32 bits).
ProductGreater(a, k, b, m) ==
    LET x == MulLimbs(LimbsOf(a), k, 0)
        y == MulLimbs(LimbsOf(b), m, 0)
        n == Max(Len(x), Len(y))
    IN  LimbsGreater(PadLimbs(x, n), PadLimbs(y, n))

\* C18 -- Award is the floor of the proportional share: when a rotation
\* converts the pending volume v of a closed era with total T, the amount a
\* added to confirmed is floor(v * RewardsPerEra / T): a * T is not greater
\* than v * RewardsPerEra (never rounded up), and (a + 1) * T is.
AwardIsFloor ==
    last.result = "Ok" /\ last.branch = "convert"
        => LET used == converted[last.who][last.from]
               v    == used[Len(used)]
               T    == volumes_of(storage, last.from)
           IN  /\ ~ProductGreater(last.awarded, T, v, RewardsPerEra)
               /\ ProductGreater(last.awarded + 1, T, v, RewardsPerEra)

\* C19 -- Confirmed balance is monotone between claims: in every step, the
\* stored confirmed value of every account is at least what it was, except
\* in a successful claim_reward of that account, which leaves it zero; so no
\* save_trading decreases it.
ConfirmedMonotone ==
    [][\A a \in AccountId :
          \/ RewardView(rewards', a).confirmed >= RewardView(rewards, a).confirmed
          \/ /\ Called /\ last'.op = "claim_reward" /\ last'.who = a
             /\ last'.result = "Ok"
             /\ RewardView(rewards', a).confirmed = 0]_vars

\* A claim paid and zeroed the confirmed balance of one account while the
\* confirmed balance that a rotation had given another account stayed.
ConfirmedMonotoneWitness ==
    /\ last.op = "claim_reward" /\ last.result = "Ok" /\ last.ret > 0
    /\ rewards_of(storage, last.who).confirmed = 0
    /\ \E b \in AccountId \ {last.who} :
           /\ rewards_of(storage, b).confirmed > 0
           /\ rewards_of(storage, b).confirmed = unclaimed[b]

\* C20 -- Per-account isolation of rotation: a step changes the stored Reward
\* record of an account b (its presence and its confirmed, pending_vol and
\* last_modify) only if it is a save_trading or claim_reward call for b; the
\* calls for other accounts and the era advances leave b's stale pending_vol
\* and confirmed as they are.
PerAccountIsolation ==
    [][\A b \in AccountId :
          \/ Called /\ last'.who = b
          \/ /\ (b \in DOMAIN rewards') = (b \in DOMAIN rewards)
             /\ RewardView(rewards', b) = RewardView(rewards, b)]_vars

\* An account's pending volume of era 0 is still stored two eras later,
\* after the volume of another account of the same era was converted.
PerAccountIsolationWitness ==
    \E b \in AccountId \ {last.who} :
        /\ b \in DOMAIN rewards
        /\ rewards[b].pending_vol > 0 /\ rewards[b].last_modify = 0
        /\ era_start(now) >= 2 * EraDuration
        /\ last.result = "Ok" /\ last.branch = "convert" /\ last.from = 0
        /\ era_start(last.at) >= 2 * EraDuration

====
